---- MODULE Spec2Model ----
(***************************************************************************)
(* A model of duplicity-util.py: the time-specification validator, the     *)
(* command assembly of the five job operations, the invocation of the      *)
(* external tool, the local cache cleanup and main()'s dispatch.           *)
(*                                                                         *)
(* Text.  A Python str is modelled as a sequence of pieces.  A piece is a  *)
(* TLA+ string: either one character that the code treats specially (the   *)
(* blank " ", the newline "\n", the quotes "'" and "\"", and in time       *)
(* specifications every single character), or a run of ordinary            *)
(* characters holding no whitespace and no quote ("duplicity",             *)
(* "/srv/web").  Joining, splitting and stripping work on the pieces as    *)
(* str.join, str.split and str.strip work on the characters.               *)
(***************************************************************************)
EXTENDS Integers, Sequences, FiniteSets, TLC

VARIABLES
    pc,         \* position of the process: "start", "dispatch", "script", "build", "run", "cache", "exit"
    args,       \* the parsed command line (argparse namespace)
    config,     \* BackupManager.config: "loaded" (the catalog) or "empty" ({} after a load failure)
    fs,         \* the paths that exist on disk
    cmd,        \* the command string handed to _run_duplicity_command
    log,        \* what the process did, in order: reports, script runs, tool invocations, cache cleanups
    procNice,   \* the niceness of this process (os.nice adds to it)
    exit,       \* "none" while running, then "0" or "1"
    cache,      \* the job's cache directory as _local_cache_cleanup found and left it
    time_str,   \* validator harness: the string given to _validate_time_format
    given,      \* validator harness: how time_str was built (shape and the numbers it denotes)
    dateutil,   \* whether "import dateutil.parser" succeeds on this installation
    result      \* validator harness: "pending", then "True", "False" or "ValueError"

vars == <<pc, args, config, fs, cmd, log, procNice, exit, cache, time_str, given, dateutil, result>>

procVars == <<pc, args, config, fs, cmd, log, procNice, exit, cache>>
None == "None"

-----------------------------------------------------------------------------
(* Characters and numbers *)

Digits == <<"0", "1", "2", "3", "4", "5", "6", "7", "8", "9">>

\* \d of the re module, on the ASCII digits
IsDigit(c) == \E i \in 1..10 : Digits[i] = c

DigitVal(c) == (CHOOSE i \in 1..10 : Digits[i] = c) - 1

AllDigits(s) == \A i \in 1..Len(s) : IsDigit(s[i])

\* int() of a string of digits
RECURSIVE IntOf(_)
IntOf(s) ==
    IF s = <<>> THEN 0
    ELSE IntOf(SubSeq(s, 1, Len(s) - 1)) * 10 + DigitVal(s[Len(s)])

\* where a pattern's final $ may match: at the end of the string, and also just
\* before a newline that ends the string.  The strings the pattern may have consumed.
BeforeDollar(s) ==
    {s} \cup (IF Len(s) > 0 /\ s[Len(s)] = "\n" THEN {SubSeq(s, 1, Len(s) - 1)} ELSE {})

\* the positions of the piece c in s, in increasing order
RECURSIVE PositionsOf(_, _)
PositionsOf(s, c) ==
    IF s = <<>> THEN <<>>
    ELSE LET rest == PositionsOf(SubSeq(s, 1, Len(s) - 1), c)
         IN  IF s[Len(s)] = c THEN Append(rest, Len(s)) ELSE rest

\* str.split(sep) for a one-character separator
SplitOn(s, c) ==
    LET p == PositionsOf(s, c)
        n == Len(p)
    IN  [k \in 1..(n + 1) |->
            SubSeq(s, (IF k = 1 THEN 1 ELSE p[k - 1] + 1),
                      (IF k = n + 1 THEN Len(s) ELSE p[k] - 1))]

-----------------------------------------------------------------------------
(* The calendar of datetime *)

IsLeap(y) == (y % 4 = 0) /\ ((y % 100 # 0) \/ (y % 400 = 0))

DaysInMonth(y, m) ==
    IF m = 2 THEN (IF IsLeap(y) THEN 29 ELSE 28)
    ELSE IF m \in {4, 6, 9, 11} THEN 30 ELSE 31

\* datetime(year, month, day, hour, minute, second) is constructed without ValueError
DatetimeOk(y, mo, d, h, mi, s) ==
    /\ y \in 1..9999
    /\ mo \in 1..12
    /\ d \in 1..DaysInMonth(y, mo)
    /\ h \in 0..23
    /\ mi \in 0..59
    /\ s \in 0..59

-----------------------------------------------------------------------------
(* _validate_time_format: the ISO datetime branch *)

IsoBody(s) ==
    /\ Len(s) = 25
    /\ \A i \in {1, 2, 3, 4, 6, 7, 9, 10, 12, 13, 15, 16, 18, 19, 21, 22, 24, 25} : IsDigit(s[i])
    /\ s[5] = "-" /\ s[8] = "-" /\ s[11] = "T"
    /\ s[14] = ":" /\ s[17] = ":"
    /\ s[20] \in {"+", "-"}
    /\ s[23] = ":"

iso_datetime_pattern(s) == \E t \in BeforeDollar(s) : IsoBody(t)

\* the fields of a string that matches iso_datetime_pattern
IsoFields(s) ==
    [year   |-> IntOf(SubSeq(s, 1, 4)),
     month  |-> IntOf(SubSeq(s, 6, 7)),
     day    |-> IntOf(SubSeq(s, 9, 10)),
     hour   |-> IntOf(SubSeq(s, 12, 13)),
     minute |-> IntOf(SubSeq(s, 15, 16)),
     second |-> IntOf(SubSeq(s, 18, 19)),
     tzh    |-> IntOf(SubSeq(s, 21, 22)),
     tzm    |-> IntOf(SubSeq(s, 24, 25))]

\* dateutil.parser.isoparse returns (TRUE) or raises (FALSE).  24:00:00 is read as
\* midnight of the next day; a zone offset other than 00:00 needs hours <= 23 and
\* minutes <= 59; a newline after the offset is an unknown component.
isoparse(s) ==
    LET f == IsoFields(s)
        tzOk == (f.tzh = 0 /\ f.tzm = 0) \/ (f.tzh <= 23 /\ f.tzm <= 59)
    IN  /\ Len(s) = 25
        /\ tzOk
        /\ IF f.hour = 24
           THEN /\ f.minute = 0 /\ f.second = 0
                /\ DatetimeOk(f.year, f.month, f.day, 0, 0, 0)
                /\ ~(f.year = 9999 /\ f.month = 12 /\ f.day = 31)
           ELSE DatetimeOk(f.year, f.month, f.day, f.hour, f.minute, f.second)

\* the manual parsing used when dateutil cannot be imported
ManualIsoParse(s) ==
    LET f == IsoFields(s)
    IN  /\ 1 <= f.month /\ f.month <= 12
        /\ 1 <= f.day /\ f.day <= 31
        /\ 0 <= f.hour /\ f.hour <= 23
        /\ 0 <= f.minute /\ f.minute <= 59
        /\ 0 <= f.second /\ f.second <= 59

\* the try block of the ISO branch: True, or False from "except Exception"
IsoBranch(s, hasDateutil) ==
    IF hasDateutil
    THEN (IF isoparse(s) THEN "True" ELSE "False")
    ELSE (IF ManualIsoParse(s) THEN "True" ELSE "False")

-----------------------------------------------------------------------------
(* _validate_time_format: the interval branch *)

Units == {"s", "m", "h", "D", "W", "M", "Y"}

\* (\d+[smhDWMY])+ : digits and units only, starting with a digit, ending with a
\* unit, every unit directly preceded by a digit
IntervalBody(s) ==
    /\ Len(s) >= 2
    /\ \A i \in 1..Len(s) : IsDigit(s[i]) \/ s[i] \in Units
    /\ IsDigit(s[1])
    /\ s[Len(s)] \in Units
    /\ \A i \in 2..Len(s) : s[i] \in Units => IsDigit(s[i - 1])

interval_pattern(s) == \E t \in BeforeDollar(s) : IntervalBody(t)

\* re.findall(r'\d+[smhDWMY]', s): the successive non-overlapping matches
RECURSIVE FindComponents(_, _)
FindComponents(s, cur) ==
    IF s = <<>> THEN <<>>
    ELSE IF IsDigit(Head(s)) THEN FindComponents(Tail(s), Append(cur, Head(s)))
    ELSE IF Head(s) \in Units /\ cur # <<>>
         THEN <<Append(cur, Head(s))>> \o FindComponents(Tail(s), <<>>)
    ELSE FindComponents(Tail(s), <<>>)

\* re.match(r'\d+[smhDWMY]$', comp)
ComponentBody(c) ==
    /\ Len(c) >= 2
    /\ AllDigits(SubSeq(c, 1, Len(c) - 1))
    /\ c[Len(c)] \in Units

IntervalBranch(s) ==
    /\ interval_pattern(s)
    /\ LET components == FindComponents(s, <<>>)
       IN  \A k \in 1..Len(components) :
               \E t \in BeforeDollar(components[k]) : ComponentBody(t)

-----------------------------------------------------------------------------
(* _validate_time_format: the date branch *)

\* ^\d{4}<sep>\d{1,2}<sep>\d{1,2}$ when yearFirst, ^\d{1,2}<sep>\d{1,2}<sep>\d{4}$ otherwise
DateBody(s, sep, yearFirst) ==
    LET f == SplitOn(s, sep)
    IN  /\ Len(f) = 3
        /\ \A k \in 1..3 : AllDigits(f[k])
        /\ Len(f[2]) \in 1..2
        /\ IF yearFirst
           THEN Len(f[1]) = 4 /\ Len(f[3]) \in 1..2
           ELSE Len(f[1]) \in 1..2 /\ Len(f[3]) = 4

DatePattern(s, sep, yearFirst) == \E t \in BeforeDollar(s) : DateBody(t, sep, yearFirst)

\* %m of strptime: 1[0-2]|0[1-9]|[1-9]
StrptimeMonth(t) == AllDigits(t) /\ Len(t) \in 1..2 /\ IntOf(t) \in 1..12

\* %d of strptime: 3[01]|[12]\d|0[1-9]|[1-9]
StrptimeDay(t) == AllDigits(t) /\ Len(t) \in 1..2 /\ IntOf(t) \in 1..31

\* strptime as it would be if the fields were only matched against the format and
\* never built into a date
strptime_fields_only(s, sep, yearFirst) ==
    LET f == SplitOn(s, sep)
        y == IF yearFirst THEN f[1] ELSE f[3]
        m == IF yearFirst THEN f[2] ELSE f[1]
        d == IF yearFirst THEN f[3] ELSE f[2]
    IN  /\ Len(f) = 3
        /\ AllDigits(y) /\ Len(y) = 4
        /\ StrptimeMonth(m)
        /\ StrptimeDay(d)

\* datetime.strptime(s, format) returns (TRUE) or raises ValueError (FALSE); the
\* whole string must be converted, so a trailing newline is "unconverted data"
strptime(s, sep, yearFirst) ==
    LET f == SplitOn(s, sep)
        y == IF yearFirst THEN f[1] ELSE f[3]
        m == IF yearFirst THEN f[2] ELSE f[1]
        d == IF yearFirst THEN f[3] ELSE f[2]
    IN  /\ Len(f) = 3
        /\ AllDigits(y) /\ Len(y) = 4
        /\ StrptimeMonth(m)
        /\ StrptimeDay(d)
        /\ DatetimeOk(IntOf(y), IntOf(m), IntOf(d), 0, 0, 0)

\* date_patterns, in the order of the list: <<separator, year first>>
date_patterns == <<<<"/", TRUE>>, <<"-", TRUE>>, <<"/", FALSE>>, <<"-", FALSE>>>>

DateBranch(s) ==
    \E k \in 1..Len(date_patterns) :
        /\ DatePattern(s, date_patterns[k][1], date_patterns[k][2])
        /\ strptime(s, date_patterns[k][1], date_patterns[k][2])

-----------------------------------------------------------------------------
(* _validate_time_format: True, False, or the ValueError listing the formats *)

validate_time_format(s, hasDateutil) ==
    IF iso_datetime_pattern(s) THEN IsoBranch(s, hasDateutil)
    ELSE IF IntervalBranch(s) THEN "True"
    ELSE IF DateBranch(s) THEN "True"
    ELSE "ValueError"

-----------------------------------------------------------------------------
(* Strings of commands: join, split, strip *)

IsSpace(p) == p \in {" ", "\n", "\t"}

IsQuote(p) == p \in {"'", "\""}

\* the str a text stands for
RECURSIVE Str(_)
Str(t) == IF t = <<>> THEN "" ELSE Head(t) \o Str(Tail(t))

\* " ".join(parts)
RECURSIVE Join(_)
Join(parts) ==
    IF parts = <<>> THEN <<>>
    ELSE IF Len(parts) = 1 THEN parts[1]
    ELSE parts[1] \o <<" ">> \o Join(Tail(parts))

\* str.split(): the maximal runs without whitespace; cur is the run being read
RECURSIVE SplitWords(_, _)
SplitWords(s, cur) ==
    IF s = <<>> THEN (IF cur = "" THEN <<>> ELSE <<cur>>)
    ELSE IF IsSpace(Head(s))
         THEN (IF cur = "" THEN <<>> ELSE <<cur>>) \o SplitWords(Tail(s), "")
    ELSE SplitWords(Tail(s), cur \o Head(s))

split(s) == SplitWords(s, "")

\* str.split(' ', 1)
SplitFirstBlank(s) ==
    LET p == PositionsOf(s, " ")
    IN  IF p = <<>> THEN <<s>>
        ELSE <<SubSeq(s, 1, p[1] - 1), SubSeq(s, p[1] + 1, Len(s))>>

\* pattern.strip("'\"")
RECURSIVE LStripQuotes(_)
LStripQuotes(t) ==
    IF t # <<>> /\ IsQuote(Head(t)) THEN LStripQuotes(Tail(t)) ELSE t

RECURSIVE RStripQuotes(_)
RStripQuotes(t) ==
    IF t # <<>> /\ IsQuote(t[Len(t)]) THEN RStripQuotes(SubSeq(t, 1, Len(t) - 1)) ELSE t

StripQuotes(t) == RStripQuotes(LStripQuotes(t))

\* dict.get(key, default)
Get(d, key, default) == IF key \in DOMAIN d THEN d[key] ELSE default

-----------------------------------------------------------------------------
(* The installation: the job catalog, the environment file, the disk *)

\* config['jobs'], a job being the mapping of the keys its YAML entry holds
Jobs ==
    ("web" :> [source |-> <<"/srv/web">>, retention |-> 14])
    @@ ("db" :> [source |-> <<"/var/lib/db">>, retention |-> 30, type |-> "full",
                 compress |-> FALSE, encrypt |-> TRUE,
                 pre_script |-> <<"/usr/local/bin/dump-db">>])
    @@ ("home" :> [source |-> <<"/home">>, retention |-> 30, fullifolder |-> 7,
                   type |-> "incremental",
                   include |-> << <<"'", "/home/alice", "'">>, <<"/home/bob">> >>,
                   exclude |-> << <<"\"", "*.tmp", "\"">>,
                                  <<"/home/My", " ", "Documents">> >>])
    @@ ("mail" :> [source |-> <<"/var/mail">>, retention |-> 30,
                   exclude |-> << <<"*.tmp">> >>,
                   pre_script |-> <<"/usr/local/bin/stop-mail", "--quiet">>,
                   abort_on_pre_script_failure |-> FALSE,
                   pre_script_timeout |-> 60])
    @@ ("etc" :> [source |-> <<"/etc">>, retention |-> 7,
                  pre_script |-> <<"/usr/local/bin/snapshot-etc">>,
                  abort_on_pre_script_failure |-> TRUE])

\* the jobs in the order of the catalog file
JobOrder == <<"web", "db", "home", "mail", "etc">>

\* config['destination']
destination_root == <<"/backup/">>

\* DUPLICITY_OPTIONS of the environment file
DUPLICITY_OPTIONS == <<"--verbosity", " ", "4">>

Paths == {"/srv/web", "/var/lib/db", "/home", "/var/mail", "/etc", "/restore"}

FsChoices == {Paths, {"/home", "/restore"}}

-----------------------------------------------------------------------------
(* The command line *)

ActionChoices == {"list", "restore", "backup", "status", "content", "cleanup"}
JobActions == {"restore", "backup", "status", "content", "cleanup"}
JobChoices == {None, "web", "db", "home", "mail", "etc", "ghost"}
RestorePathChoices == {None, "/restore", "/missing"}
PathToRestoreChoices == {None, "etc/hosts"}
NiceChoices == {-21, -5, 10, 19, 20}
IoniceClassChoices == {2, 3}

\* --time: not given (the empty text), or one of these
ValidCliTimes ==
    { <<"7", "D">>,
      <<"2", "0", "2", "3", "-", "0", "2", "-", "2", "8">>,
      <<"2", "0", "0", "2", "-", "0", "1", "-", "2", "5", "T", "0", "7", ":", "0", "0",
        ":", "0", "0", "+", "0", "2", ":", "0", "0">> }

InvalidCliTimes ==
    { <<"y", "e", "s", "t", "e", "r", "d", "a", "y">>,
      <<"2", "0", "2", "3", "-", "0", "2", "-", "3", "0">>,
      <<"2", "0", "2", "3", "-", "1", "3", "-", "0", "1", "T", "0", "0", ":", "0", "0",
        ":", "0", "0", "+", "0", "0", ":", "0", "0">> }

TimeChoices == {<<>>} \cup ValidCliTimes \cup InvalidCliTimes

\* the command lines tried: an option is left at its default for the actions
\* that never read it
ArgSpace ==
    { a \in [action : ActionChoices, job : JobChoices, all : BOOLEAN,
             restore_path : RestorePathChoices, path_to_restore : PathToRestoreChoices,
             time : TimeChoices, nice : NiceChoices,
             ionice_class : IoniceClassChoices, ionice_level : {7},
             progress : BOOLEAN, force : BOOLEAN] :
        /\ a.all => a.job \in {None, "web"}
        /\ a.action # "restore" =>
              a.restore_path = None /\ a.path_to_restore = None /\ ~a.force
        /\ a.action \notin {"restore", "content"} => a.time = <<>>
        /\ a.action \notin {"restore", "backup"} => ~a.progress }

-----------------------------------------------------------------------------
(* Command assembly *)

Text(str) == <<str>>

\* the backup location of a job: config['destination'] + job_name
BackupLocation(job_name) == destination_root \o Text(job_name)

\* the cutover as it would be if the override were never read
FullifolderIsRetention(job) == job.retention

\* job.get('fullifolder', retention)
Fullifolder(job) == Get(job, "fullifolder", job.retention)

\* DUPLICITY_ARCHIVE_DIR of the environment file
DUPLICITY_ARCHIVE_DIR == <<"/var/cache/duplicity">>

\* f"{CACHE_DIR}/{job_name}"
job_cache_dir(job_name) == DUPLICITY_ARCHIVE_DIR \o <<"/">> \o Text(job_name)

\* str() of a number that is not negative
RECURSIVE Decimal(_)
Decimal(n) ==
    IF n < 10 THEN <<Digits[n + 1]>>
    ELSE Decimal(n \div 10) \o <<Digits[(n % 10) + 1]>>

\* the find command as it would be if the age test were never added
cleanup_find_cmd_without_age(job_name) ==
    <<Text("find"), job_cache_dir(job_name), Text("-type"), Text("f"),
      Text("-delete"), Text("-print")>>

\* cleanup_find_cmd of _local_cache_cleanup: the argument list given to Popen
cleanup_find_cmd(job_name) ==
    IF job_name \in DOMAIN Jobs
    THEN <<Text("find"), job_cache_dir(job_name), Text("-type"), Text("f"),
           Text("-mtime"), <<"+">> \o Decimal(Fullifolder(Jobs[job_name])),
           Text("-delete"), Text("-print")>>
    ELSE <<Text("find"), job_cache_dir(job_name), Text("-type"), Text("f"),
           Text("-delete"), Text("-print")>>

\* An entry below the cache directory: its name, its type as find's -type names it
\* ("f" regular file, "d" directory, "l" symbolic link) and the time since its last
\* modification in half days.
\* find's tests on one entry: -type c, and -mtime n or +n, which counts the whole
\* 24-hour periods since the modification and ignores the fraction
FindMatches(argv, entry) ==
    \A i \in 3..(Len(argv) - 1) :
        /\ argv[i] = Text("-type") => entry.type = Str(argv[i + 1])
        /\ argv[i] = Text("-mtime") =>
              LET n == argv[i + 1]
                  periods == entry.halfdays \div 2
              IN  IF Head(n) = "+" THEN periods > IntOf(Tail(n))
                  ELSE periods = IntOf(n)

\* what "find dir tests -delete" removes when it runs to its end
FindDeletes(argv, entries) ==
    IF \E i \in 3..Len(argv) : argv[i] = Text("-delete")
    THEN {e \in entries : FindMatches(argv, e)}
    ELSE {}

\* the entries a cache directory may hold, around a cutover of n days
CacheEntries(n) ==
    { [name |-> "new", type |-> "f", halfdays |-> 0],
      [name |-> "exact", type |-> "f", halfdays |-> 2 * n],
      [name |-> "edge", type |-> "f", halfdays |-> 2 * n + 1],
      [name |-> "old", type |-> "f", halfdays |-> 2 * n + 2],
      [name |-> "subdir", type |-> "d", halfdays |-> 2 * n + 2],
      [name |-> "link", type |-> "l", halfdays |-> 2 * n + 2] }

\* the contents the job's cache directory may have when the cleanup starts
CacheChoices(job_name) ==
    LET all == CacheEntries(IF job_name \in DOMAIN Jobs
                            THEN Fullifolder(Jobs[job_name]) ELSE 0)
    IN  {{}, all, {e \in all : e.name \in {"new", "subdir"}}}

\* the cache directory before any cleanup looked at it
Untouched == [present |-> FALSE, before |-> {}, after |-> {}, find |-> "none"]

\* the loop over include or exclude patterns: two entries of cmd_parts per pattern
RECURSIVE PatternParts(_, _)
PatternParts(flag, patterns) ==
    IF patterns = <<>> THEN <<>>
    ELSE <<Text(flag), StripQuotes(Head(patterns))>> \o PatternParts(flag, Tail(patterns))

\* the base verb of trigger_backup
BackupVerb(job) ==
    IF Get(job, "type", "incremental") = "full"
    THEN <<"duplicity", " ", "full">>
    ELSE <<"duplicity", " ", "incr", " ", "--full-if-older-than", " ",
           ToString(Fullifolder(job)) \o "D">>

\* the command string of trigger_backup
BackupCommand(job_name, show_progress) ==
    LET job == Jobs[job_name]
    IN  Join(<<BackupVerb(job)>>
             \o (IF show_progress THEN <<Text("--progress")>> ELSE <<>>)
             \o (IF ~Get(job, "compress", TRUE) THEN <<Text("--no-compression")>> ELSE <<>>)
             \o (IF ~Get(job, "encrypt", FALSE) THEN <<Text("--no-encryption")>> ELSE <<>>)
             \o PatternParts("--include", Get(job, "include", <<>>))
             \o PatternParts("--exclude", Get(job, "exclude", <<>>))
             \o <<job.source, BackupLocation(job_name)>>)

\* the command string of restore_job
RestoreCommand(a, destination) ==
    Join(<< <<"duplicity", " ", "restore">> >>
         \o (IF a.progress THEN <<Text("--progress")>> ELSE <<>>)
         \o (IF a.force THEN <<Text("--force")>> ELSE <<>>)
         \o (IF a.time # <<>> THEN <<Text("--time"), a.time>> ELSE <<>>)
         \o (IF a.path_to_restore # None
             THEN << <<"--file-to-restore", " ", a.path_to_restore>> >> ELSE <<>>)
         \o <<BackupLocation(a.job), destination>>)

\* the command string of trigger_cleanup
CleanupCommand(job_name) ==
    <<"duplicity", " ", "remove-older-than", " ", ToString(Jobs[job_name].retention) \o "D", " ">>
    \o BackupLocation(job_name) \o <<" ", "--force">>

\* the command string of get_job_status
StatusCommand(job_name) ==
    <<"duplicity", " ", "collection-status", " ">> \o BackupLocation(job_name)

\* the command string of list_job_content
ContentCommand(job_name, target_date) ==
    Join(<< <<"duplicity", " ", "list-current-files">> >>
         \o (IF target_date # <<>> THEN << <<"-t", " ">> \o target_date >> ELSE <<>>)
         \o <<BackupLocation(job_name)>>)

\* _run_duplicity_command: the options and the --name tag go after the first word
FinalCommand(command, job_name) ==
    LET cmd_parts == SplitFirstBlank(command)
    IN  IF job_name # None
        THEN cmd_parts[1] \o <<" ">> \o DUPLICITY_OPTIONS \o <<" ", "--name=", job_name, " ">>
             \o cmd_parts[2]
        ELSE cmd_parts[1] \o <<" ">> \o DUPLICITY_OPTIONS \o <<" ">> \o cmd_parts[2]

\* _run_duplicity_command: the argument list given to subprocess.Popen
cmd_list(command, job_name) == split(FinalCommand(command, job_name))

-----------------------------------------------------------------------------
(* What the process does, in order *)

Event(kind, job, argv, ok, nice, limit, detail) ==
    [kind |-> kind, job |-> job, argv |-> argv, ok |-> ok, nice |-> nice,
     limit |-> limit, detail |-> detail]

\* _print_error
Report(job, detail) == Event("error", job, <<>>, FALSE, 0, 0, detail)

\* an exception nothing catches: the traceback, then exit status 1
Traceback(job, detail) == Event("uncaught", job, <<>>, FALSE, 0, 0, detail)

\* how the first part of an operation ends
Uncaught(detail) == [kind |-> "uncaught", cmd |-> <<>>, detail |-> detail]
Abort(detail) == [kind |-> "abort", cmd |-> <<>>, detail |-> detail]
Script == [kind |-> "script", cmd |-> <<>>, detail |-> ""]
Run(command) == [kind |-> "run", cmd |-> command, detail |-> ""]

\* restore_job as it would be without the os.path.exists check
RestorePlanNoExistsCheck(a, cfg, disk, hasDateutil) ==
    IF cfg = "empty" THEN Uncaught("KeyError: 'destination'")
    ELSE IF a.restore_path = None /\ a.job \notin DOMAIN Jobs
    THEN Uncaught("KeyError: job")
    ELSE LET destination == IF a.restore_path # None THEN Text(a.restore_path)
                            ELSE Jobs[a.job].source
         IN  IF a.time # <<>> /\ validate_time_format(a.time, hasDateutil) = "ValueError"
             THEN Abort("Invalid time format")
             ELSE Run(RestoreCommand(a, destination))

\* restore_job up to its call of _run_duplicity_command
RestorePlan(a, cfg, disk, hasDateutil) ==
    IF cfg = "empty" THEN Uncaught("KeyError: 'destination'")
    ELSE IF a.restore_path = None /\ a.job \notin DOMAIN Jobs
    THEN Uncaught("KeyError: job")
    ELSE LET destination == IF a.restore_path # None THEN Text(a.restore_path)
                            ELSE Jobs[a.job].source
         IN  IF Str(destination) \notin disk
             THEN Abort("Restoration path does not exist")
             ELSE IF a.time # <<>> /\ validate_time_format(a.time, hasDateutil) = "ValueError"
             THEN Abort("Invalid time format")
             ELSE Run(RestoreCommand(a, destination))

\* trigger_backup up to the pre-script
BackupPlan(a, cfg) ==
    IF cfg = "empty" THEN Uncaught("KeyError: 'jobs'")
    ELSE IF a.job \notin DOMAIN Jobs THEN Abort("Job not found")
    ELSE IF "pre_script" \in DOMAIN Jobs[a.job] THEN Script
    ELSE Run(BackupCommand(a.job, a.progress))

\* trigger_cleanup up to its call of _run_duplicity_command
CleanupPlan(a, cfg) ==
    IF cfg = "empty" THEN Uncaught("KeyError: 'jobs'")
    ELSE IF a.job \notin DOMAIN Jobs THEN Abort("Job not found")
    ELSE Run(CleanupCommand(a.job))

\* get_job_status up to its call of _run_duplicity_command
StatusPlan(a, cfg) ==
    IF cfg = "empty" THEN Uncaught("KeyError: 'destination'")
    ELSE Run(StatusCommand(a.job))

\* list_job_content up to its call of _run_duplicity_command
ContentPlan(a, cfg, hasDateutil) ==
    IF cfg = "empty" THEN Uncaught("KeyError: 'destination'")
    ELSE IF a.time # <<>> /\ validate_time_format(a.time, hasDateutil) = "ValueError"
    THEN Abort("Invalid time format")
    ELSE Run(ContentCommand(a.job, a.time))

\* the operations as they would be if the cache cleanup were skipped after a failed
\* invocation
AfterRunOnlyOnSuccess(action, ok) ==
    IF action \in {"restore", "cleanup"} /\ ok THEN "cache" ELSE "exit"

\* what the operations do once _run_duplicity_command has returned: restore_job and
\* trigger_cleanup call _local_cache_cleanup, whatever was returned; the others return
AfterRun(action, ok) == IF action \in {"restore", "cleanup"} THEN "cache" ELSE "exit"

-----------------------------------------------------------------------------
(* The validator on its own: a time specification is drawn, then validated *)

MaxComponents == 2

\* writing numbers as the user types them
Pad2(n) == <<Digits[(n \div 10) + 1], Digits[(n % 10) + 1]>>
Pad4(n) == Pad2(n \div 100) \o Pad2(n % 100)
Typed(n, padded) == IF n < 10 /\ ~padded THEN <<Digits[n + 1]>> ELSE Pad2(n)

IsoYears == {2023, 2024}
IsoMonths == {0, 1, 2, 4, 12, 13}
IsoDays == {0, 1, 28, 29, 30, 31, 32}
IsoHours == {0, 23, 24}
IsoMinutes == {0, 59, 60}
IsoSeconds == {0, 59, 60}
IsoOffsets == {<<"+", 0, 0>>, <<"-", 5, 30>>, <<"+", 24, 0>>, <<"+", 2, 60>>}

IsoText(g) ==
    Pad4(g.y) \o <<"-">> \o Pad2(g.mo) \o <<"-">> \o Pad2(g.d) \o <<"T">>
    \o Pad2(g.h) \o <<":">> \o Pad2(g.mi) \o <<":">> \o Pad2(g.s)
    \o <<g.sign>> \o Pad2(g.tzh) \o <<":">> \o Pad2(g.tzm)

IsoGiven ==
    { [shape |-> "iso", y |-> y, mo |-> mo, d |-> d, h |-> h, mi |-> mi, s |-> s,
       sign |-> o[1], tzh |-> o[2], tzm |-> o[3]] :
        y \in IsoYears, mo \in IsoMonths, d \in IsoDays, h \in IsoHours,
        mi \in IsoMinutes, s \in IsoSeconds, o \in IsoOffsets }

IntervalComponents ==
    { <<"1", "s">>, <<"3", "0", "m">>, <<"1", "h">>, <<"7", "D">>,
      <<"2", "W">>, <<"1", "0", "M">>, <<"1", "Y">> }

Stray == {" ", "\n", "x", "d", "-", "/", ":", "+", "T", "."}

RECURSIVE Concat(_)
Concat(ss) == IF ss = <<>> THEN <<>> ELSE Head(ss) \o Concat(Tail(ss))

InsertAt(s, at, c) == SubSeq(s, 1, at) \o <<c>> \o SubSeq(s, at + 1, Len(s))

IntervalStrings ==
    UNION { { Concat(cs) : cs \in [1..n -> IntervalComponents] } : n \in 1..MaxComponents }

IntervalGiven ==
    { [shape |-> "interval", base |-> b, stray |-> None, at |-> 0] : b \in IntervalStrings }
    \cup
    UNION { { [shape |-> "interval", base |-> b, stray |-> c, at |-> at] :
                c \in Stray, at \in 0..Len(b) } : b \in IntervalStrings }

IntervalText(g) == IF g.stray = None THEN g.base ELSE InsertAt(g.base, g.at, g.stray)

DateYears == {0, 1900, 2000, 2023, 2024}
DateMonths == {0, 1, 2, 4, 9, 12, 13}
DateDays == {0, 1, 28, 29, 30, 31, 32}

DateGiven ==
    { [shape |-> "date", y |-> y, mo |-> mo, d |-> d, sep |-> sep,
       yearFirst |-> yf, padded |-> p] :
        y \in DateYears, mo \in DateMonths, d \in DateDays, sep \in {"/", "-"},
        yf \in BOOLEAN, p \in BOOLEAN }

DateText(g) ==
    IF g.yearFirst
    THEN Pad4(g.y) \o <<g.sep>> \o Typed(g.mo, g.padded) \o <<g.sep>> \o Typed(g.d, g.padded)
    ELSE Typed(g.mo, g.padded) \o <<g.sep>> \o Typed(g.d, g.padded) \o <<g.sep>> \o Pad4(g.y)

TextOf(g) ==
    IF g.shape = "iso" THEN IsoText(g)
    ELSE IF g.shape = "interval" THEN IntervalText(g)
    ELSE DateText(g)

Idle ==
    /\ pc = "idle"
    /\ args = None
    /\ config = None
    /\ fs = {}
    /\ cmd = <<>>
    /\ log = <<>>
    /\ procNice = 0
    /\ exit = "none"
    /\ cache = Untouched

InitTime ==
    /\ Idle
    /\ dateutil \in BOOLEAN
    /\ given \in IsoGiven \cup IntervalGiven \cup DateGiven
    /\ time_str = TextOf(given)
    /\ result = "pending"

\* one call of _validate_time_format(time_str)
Validate ==
    /\ result = "pending"
    /\ result' = validate_time_format(time_str, dateutil)
    /\ UNCHANGED <<procVars, time_str, given, dateutil>>

NextTime == Validate

SpecTime == InitTime /\ [][NextTime]_vars

-----------------------------------------------------------------------------
(* The Gregorian calendar, for stating what a real date is *)

RefMonthDays == <<31, 28, 31, 30, 31, 30, 31, 31, 30, 31, 30, 31>>

RefLeap(y) == (y % 400 = 0) \/ (y % 4 = 0 /\ y % 100 # 0)

RealDate(y, m, d) ==
    /\ y >= 1
    /\ m \in 1..12
    /\ d >= 1
    /\ d <= (IF m = 2 /\ RefLeap(y) THEN 29 ELSE RefMonthDays[m])

Validated(shape) == result # "pending" /\ given.shape = shape

\* C3: for a string of the ISO-instant pattern the validator succeeds when every
\* calendar and time component is valid, and does not succeed when the month, the
\* day (for that month), the hour, the minute or the second is out of range.
C3_IsoComponentsDecide ==
    Validated("iso") =>
        LET dateOk == RealDate(given.y, given.mo, given.d)
            timeOk == given.h <= 23 /\ given.mi <= 59 /\ given.s <= 59
            zoneOk == given.tzh <= 23 /\ given.tzm <= 59
        IN  /\ (dateOk /\ timeOk /\ zoneOk) => result = "True"
            /\ (~dateOk \/ ~timeOk) => result # "True"

\* C4: a concatenation of <positive integer><unit> components validates, and the
\* same string with one character from outside the grammar inserted anywhere,
\* the end included, does not.
C4_IntervalGrammarExact ==
    Validated("interval") =>
        IF given.stray = None THEN result = "True" ELSE result # "True"

\* C5: a string in one of the four date shapes validates if and only if it denotes
\* a real calendar date (of the years 1 to 9999 that datetime knows), and when it
\* does not the validator raises the ValueError that lists the accepted formats.
C5_DateShapesRealDatesOnly ==
    Validated("date") =>
        /\ result = "True" <=> RealDate(given.y, given.mo, given.d)
        /\ ~RealDate(given.y, given.mo, given.d) => result = "ValueError"

\* 2023-02-30 has been refused with the ValueError
C5_Witness ==
    /\ Validated("date")
    /\ given.y = 2023 /\ given.mo = 2 /\ given.d = 30
    /\ given.sep = "-" /\ given.yearFirst
    /\ result = "ValueError"

-----------------------------------------------------------------------------
(* The process: main() and the operations it dispatches to *)

\* the niceness the process inherits from its parent
InheritedNice == {0, 5}

\* timeout = job.get('pre_script_timeout', 1800)
DefaultScriptTimeout == 1800

NiceFloor == -20
NiceCeiling == 19

Init ==
    /\ pc = "start"
    /\ args = None
    /\ config = None
    /\ fs \in FsChoices
    /\ cmd = <<>>
    /\ log = <<>>
    /\ procNice \in InheritedNice
    /\ exit = "none"
    /\ cache = Untouched
    /\ time_str = <<>>
    /\ given = [shape |-> "cli"]
    /\ dateutil \in BOOLEAN
    /\ result = "pending"

env == <<fs, procNice, cache, time_str, given, dateutil, result>>

\* the process ends with this exit status
Exit(status) == pc' = "exit" /\ exit' = status

\* main: parse_args, then "Error: Nice value must be between -20 and 19"
main_bad_nice ==
    /\ pc = "start"
    /\ \E a \in ArgSpace :
        /\ ~(NiceFloor <= a.nice /\ a.nice <= NiceCeiling)
        /\ args' = a
        /\ log' = Append(log, Report(a.job, "Nice value must be between -20 and 19"))
    /\ Exit("1")
    /\ UNCHANGED <<config, cmd, env>>

\* main: parse_args, the checks passed, BackupManager(...) with _load_config
\* returning the catalog or, after a reported failure, {}
main_construct ==
    /\ pc = "start"
    /\ \E a \in ArgSpace :
        /\ NiceFloor <= a.nice /\ a.nice <= NiceCeiling
        /\ args' = a
    /\ \E c \in {"loaded", "empty"} : config' = c
    /\ pc' = "dispatch"
    /\ UNCHANGED <<cmd, log, exit, env>>

\* main: action 'list'; list_jobs reads config['jobs']
main_list ==
    /\ pc = "dispatch"
    /\ args.action = "list"
    /\ IF config = "empty"
       THEN log' = Append(log, Traceback(args.job, "KeyError: 'jobs'")) /\ Exit("1")
       ELSE log' = log /\ Exit("0")
    /\ UNCHANGED <<args, config, cmd, env>>

\* main: neither --job nor --all, or both
main_bad_selector ==
    /\ pc = "dispatch"
    /\ args.action \in JobActions
    /\ (args.job = None /\ ~args.all) \/ (args.job # None /\ args.all)
    /\ log' = Append(log, Report(args.job,
                IF args.all THEN "Cannot specify both --job and --all"
                ELSE "Either a jobname --job or --all must be specified"))
    /\ Exit("1")
    /\ UNCHANGED <<args, config, cmd, env>>

\* main: --all; the loop header reads backup_manager.jobs, an attribute that
\* BackupManager never sets, so AttributeError ends the process before any job
main_all ==
    /\ pc = "dispatch"
    /\ args.action \in JobActions
    /\ args.job = None /\ args.all
    /\ log' = Append(log, Traceback(None, "AttributeError: 'BackupManager' object has no attribute 'jobs'"))
    /\ Exit("1")
    /\ UNCHANGED <<args, config, cmd, env>>

\* the first part of an operation has ended as plan says
Proceed(plan) ==
    CASE plan.kind = "uncaught" ->
            /\ log' = Append(log, Traceback(args.job, plan.detail))
            /\ Exit("1")
            /\ cmd' = cmd
      [] plan.kind = "abort" ->
            /\ log' = Append(log, Report(args.job, plan.detail))
            /\ Exit("0")
            /\ cmd' = cmd
      [] plan.kind = "script" ->
            /\ pc' = "script"
            /\ UNCHANGED <<log, exit, cmd>>
      [] plan.kind = "run" ->
            /\ pc' = "run"
            /\ cmd' = plan.cmd
            /\ UNCHANGED <<log, exit>>

SingleJob(action) ==
    /\ pc = "dispatch"
    /\ args.action = action
    /\ args.job # None /\ ~args.all

restore_job ==
    /\ SingleJob("restore")
    /\ Proceed(RestorePlan(args, config, fs, dateutil))
    /\ UNCHANGED <<args, config, env>>

trigger_backup ==
    /\ SingleJob("backup")
    /\ Proceed(BackupPlan(args, config))
    /\ UNCHANGED <<args, config, env>>

trigger_cleanup ==
    /\ SingleJob("cleanup")
    /\ Proceed(CleanupPlan(args, config))
    /\ UNCHANGED <<args, config, env>>

get_job_status ==
    /\ SingleJob("status")
    /\ Proceed(StatusPlan(args, config))
    /\ UNCHANGED <<args, config, env>>

list_job_content ==
    /\ SingleJob("content")
    /\ Proceed(ContentPlan(args, config, dateutil))
    /\ UNCHANGED <<args, config, env>>

\* the pre-script of trigger_backup: script_config is a path, or a path and arguments
ScriptOutcomes == {"ok", "failed", "timeout", "unusable"}

\* the flag as it would be if a job without it did not abort
AbortOnFailureDefaultFalse(job) == Get(job, "abort_on_pre_script_failure", FALSE)

\* job.get('abort_on_pre_script_failure', True)
AbortOnFailure(job) == Get(job, "abort_on_pre_script_failure", TRUE)

\* trigger_backup from the pre-script on: _execute_script runs the script to its end
\* or kills it at the timeout (or finds it missing or not executable), then the
\* backup is abandoned or its command assembled
execute_script ==
    /\ pc = "script"
    /\ \E outcome \in ScriptOutcomes :
        LET job == Jobs[args.job]
            timeout == Get(job, "pre_script_timeout", DefaultScriptTimeout)
            ran == IF outcome = "unusable" THEN <<>>
                   ELSE <<Event("script", args.job, job.pre_script, outcome = "ok", 0,
                                timeout, outcome)>>
            failed == IF outcome = "ok" THEN <<>>
                      ELSE <<Report(args.job, "Pre-script failed")>>
        IN  IF outcome # "ok" /\ AbortOnFailure(job)
            THEN /\ log' = log \o ran \o failed
                            \o <<Report(args.job, "Aborting backup due to pre-script failure")>>
                 /\ Exit("0")
                 /\ cmd' = cmd
            ELSE /\ log' = log \o ran \o failed
                 /\ pc' = "run"
                 /\ cmd' = BackupCommand(args.job, args.progress)
                 /\ exit' = exit
    /\ UNCHANGED <<args, config, env>>

\* _run_duplicity_command has returned ok to the operation
Returned(ok) ==
    LET next == AfterRun(args.action, ok)
    IN  /\ pc' = next
        /\ exit' = IF next = "exit" THEN "0" ELSE exit

Clamp(n) == IF n > NiceCeiling THEN NiceCeiling ELSE IF n < NiceFloor THEN NiceFloor ELSE n

\* _run_duplicity_command: os.nice(self.nice_level) raises PermissionError for a
\* negative increment of an unprivileged process; "except Exception" reports it
run_nice_denied ==
    /\ pc = "run"
    /\ args.nice < 0
    /\ log' = Append(log, Report(args.job, "Error executing duplicity command"))
    /\ Returned(FALSE)
    /\ UNCHANGED <<args, config, cmd, env>>

\* _run_duplicity_command: the priority is raised by nice_level, ionice is applied,
\* and the tool is started and waited for; it exits 0, exits nonzero, or cannot be
\* started at all
run_duplicity_command ==
    /\ pc = "run"
    /\ procNice' = Clamp(procNice + args.nice)
    /\ \E outcome \in {"ok", "failed", "not started"} :
        /\ log' = log \o
              (IF outcome = "not started" THEN <<>>
               ELSE <<Event("tool", args.job, cmd_list(cmd, args.job), outcome = "ok",
                            procNice', 0, args.action)>>)
              \o (IF outcome = "ok" THEN <<>>
                  ELSE <<Report(args.job, IF outcome = "failed" THEN "Command failed with error"
                                          ELSE "Error executing duplicity command")>>)
        /\ Returned(outcome = "ok")
    /\ UNCHANGED <<args, config, cmd, fs, cache, time_str, given, dateutil, result>>

\* _local_cache_cleanup: returns True when the job's cache directory is absent;
\* otherwise starts find with cleanup_find_cmd and reads what it deletes.  find
\* exits 0 having deleted every match, exits nonzero having deleted some of them,
\* or cannot be started (Popen raises); the event's ok is the value returned
local_cache_cleanup ==
    /\ pc = "cache"
    /\ \E present \in BOOLEAN :
        IF ~present
        THEN /\ cache' = Untouched
             /\ log' = Append(log, Event("cache", args.job, <<>>, TRUE, procNice, 0, "absent"))
        ELSE \E before \in CacheChoices(args.job), outcome \in {"ok", "failed", "not started"} :
                LET argv == cleanup_find_cmd(args.job)
                    matched == FindDeletes(argv, before)
                    known == args.job \in DOMAIN Jobs
                IN  \E deleted \in (IF outcome = "ok" THEN {matched}
                                    ELSE IF outcome = "failed" THEN SUBSET matched
                                    ELSE {{}}) :
                        /\ cache' = [present |-> TRUE, before |-> before,
                                     after |-> before \ deleted, find |-> outcome]
                        /\ log' = Append(log,
                              Event("cache", args.job, argv, outcome = "ok", procNice,
                                    IF known THEN Fullifolder(Jobs[args.job]) ELSE 0,
                                    IF known THEN "older" ELSE "all"))
    /\ Exit("0")
    /\ UNCHANGED <<args, config, cmd, fs, procNice, time_str, given, dateutil, result>>

Next ==
    \/ main_bad_nice
    \/ main_construct
    \/ main_list
    \/ main_bad_selector
    \/ main_all
    \/ restore_job
    \/ trigger_backup
    \/ trigger_cleanup
    \/ get_job_status
    \/ list_job_content
    \/ execute_script
    \/ run_nice_denied
    \/ run_duplicity_command
    \/ local_cache_cleanup

Spec == Init /\ [][Next]_vars

-----------------------------------------------------------------------------
(* Properties of the process *)

Parsed == pc # "start"

\* main dispatched to the operation `action` for the one job of --job
Dispatched(action) ==
    /\ Parsed
    /\ config # None
    /\ args.action = action
    /\ args.job # None /\ ~args.all

Logged(kind) == {i \in DOMAIN log : log[i].kind = kind}

Range(seq) == {seq[i] : i \in DOMAIN seq}

\* C1: an all-jobs sweep processes every job of the catalog, in catalog order, and
\* no uncaught error ends the process before the last job has been processed.
C1_SweepProcessesEveryJob ==
    (pc = "exit" /\ config = "loaded" /\ args.action \in {"backup", "status", "cleanup"}
        /\ args.all /\ args.job = None)
    => /\ Logged("uncaught") = {}
       /\ \A j \in Range(JobOrder) : \E i \in DOMAIN log : log[i].job = j

\* C2: in restore_job and list_job_content a time specification that is not valid
\* under the three grammars never reaches the external tool.
C2_InvalidTimeNeverReachesTool ==
    \A action \in {"restore", "content"} :
        (Dispatched(action) /\ args.time \in InvalidCliTimes) => Logged("tool") = {}

\* the place of the --name tag in an argument list: the verb follows it
NameIndex(e) == CHOOSE k \in DOMAIN e.argv : e.argv[k] = "--name=" \o e.job

Occurrences(argv, word) == {n \in DOMAIN argv : argv[n] = word}

\* C6: a backup of a job of type 'full' is invoked with the verb full and no cutover
\* argument; any other backup with the incremental verb and a full cutover of N days,
\* N being the job's fullifolder when configured and its retention otherwise.
C6_BackupVerbAndCutover ==
    \A i \in Logged("tool") :
        log[i].detail = "backup" =>
            LET e == log[i]
                job == Jobs[e.job]
                k == NameIndex(e)
                days == IF "fullifolder" \in DOMAIN job THEN job.fullifolder
                        ELSE job.retention
            IN  IF "type" \in DOMAIN job /\ job.type = "full"
                THEN /\ e.argv[k + 1] = "full"
                     /\ Occurrences(e.argv, "--full-if-older-than") = {}
                ELSE /\ e.argv[k + 1] = "incr"
                     /\ Occurrences(e.argv, "--full-if-older-than") = {k + 2}
                     /\ e.argv[k + 3] = ToString(days) \o "D"
                     /\ e.job = "web" => e.argv[k + 3] = "14D"
                     /\ e.job = "mail" => e.argv[k + 3] = "30D"

\* the backup of job web has been invoked with a 14-day cutover
C6_Witness ==
    \E i \in Logged("tool") :
        /\ log[i].detail = "backup" /\ log[i].job = "web"
        /\ \E k \in DOMAIN log[i].argv :
              /\ log[i].argv[k] = "incr"
              /\ log[i].argv[k + 1] = "--full-if-older-than"
              /\ log[i].argv[k + 2] = "14D"

\* a flag and one argument per pattern, the pattern without its surrounding quotes
RECURSIVE FlagAndValue(_, _)
FlagAndValue(flag, patterns) ==
    IF patterns = <<>> THEN <<>>
    ELSE <<flag, Str(StripQuotes(Head(patterns)))>> \o FlagAndValue(flag, Tail(patterns))

\* C7: the argument list of a backup ends with --include <pattern> for every include
\* pattern, --exclude <pattern> for every exclude pattern, each pattern one argument
\* without its surrounding quotes and in configured order, then the source path,
\* then destination_root + job name.
C7_PatternsAreDiscreteArguments ==
    \A i \in Logged("tool") :
        log[i].detail = "backup" =>
            LET argv == log[i].argv
                job == Jobs[log[i].job]
                tail == FlagAndValue("--include", Get(job, "include", <<>>))
                        \o FlagAndValue("--exclude", Get(job, "exclude", <<>>))
                        \o <<Str(job.source), Str(destination_root) \o log[i].job>>
            IN  /\ Len(argv) >= Len(tail)
                /\ SubSeq(argv, Len(argv) - Len(tail) + 1, Len(argv)) = tail

\* restore_job was called and the destination it resolves is not on disk
RestoreOfMissingDestination ==
    /\ Dispatched("restore")
    /\ config = "loaded"
    /\ IF args.restore_path # None THEN args.restore_path \notin fs
       ELSE args.job \in DOMAIN Jobs /\ Str(Jobs[args.job].source) \notin fs

\* C8: a restore whose resolved destination does not exist reports a failure and
\* returns: the external tool is not invoked and the cache cleanup is not run.
C8_MissingDestinationStopsRestore ==
    RestoreOfMissingDestination =>
        /\ Logged("tool") = {} /\ Logged("cache") = {}
        /\ pc \in {"dispatch", "exit"}
        /\ pc = "exit" => Logged("error") = {1} /\ Len(log) = 1

\* a restore to /missing has ended with the report and nothing else
C8_Witness ==
    /\ RestoreOfMissingDestination
    /\ pc = "exit"
    /\ args.restore_path = "/missing"
    /\ Len(log) = 1
    /\ log[1].detail = "Restoration path does not exist"

\* C9: each of the five operations, given a job name that is not in the catalog,
\* fails with an error (a report, or at least a traceback) and has no side effect:
\* no pre-script run, no invocation of the external tool, no deletion of cache files.
C9_UnknownJobNoSideEffects ==
    \A action \in JobActions :
        (Dispatched(action) /\ config = "loaded" /\ args.job \notin DOMAIN Jobs) =>
            /\ Logged("script") = {} /\ Logged("tool") = {}
            /\ \A i \in Logged("cache") : log[i].detail = "absent"
            /\ pc = "exit" => Logged("error") \cup Logged("uncaught") # {}

\* C10: in restore_job and trigger_cleanup every invocation of the external tool has
\* finished before the cache cleanup starts, and is followed by exactly one cache
\* cleanup, for the same job, whether the invocation succeeded or failed.
C10_CleanupFollowsEveryInvocation ==
    \A action \in {"restore", "cleanup"} :
        Dispatched(action) =>
            \A i \in Logged("tool") :
                /\ pc \in {"cache", "exit"}
                /\ pc = "cache" => Logged("cache") = {}
                /\ pc = "exit" =>
                      /\ Cardinality(Logged("cache")) = 1
                      /\ \A j \in Logged("cache") : j > i /\ log[j].job = log[i].job

\* a failed invocation of a cleanup or restore has been followed by the cache cleanup
C10_Witness ==
    /\ Parsed
    /\ args.action \in {"restore", "cleanup"}
    /\ pc = "exit"
    /\ \E i \in Logged("tool") :
          /\ ~log[i].ok
          /\ \E j \in Logged("cache") : j > i /\ log[j].job = log[i].job

\* what the cache cleanup removed from the job's cache directory
Deleted == cache.before \ cache.after

\* the entry was last modified more than `days` days ago
OlderThan(entry, days) == entry.halfdays > 2 * days

\* C11: _local_cache_cleanup returns success without starting a deletion when the
\* job's cache directory does not exist; for a job of the catalog it deletes only
\* regular files older than the job's cutover (fullifolder, else retention) in days;
\* for a job outside the catalog it deletes regular files only and, when find ends
\* well, all of them; it returns failure exactly when find exits nonzero or cannot be
\* started.
C11_CacheCleanupDeletesByAge ==
    \A i \in Logged("cache") :
        LET name == log[i].job
            days == IF "fullifolder" \in DOMAIN Jobs[name]
                    THEN Jobs[name].fullifolder ELSE Jobs[name].retention
        IN  /\ ~cache.present => log[i].ok /\ cache.find = "none" /\ Deleted = {}
            /\ cache.present /\ name \in DOMAIN Jobs =>
                  \A e \in Deleted : e.type = "f" /\ OlderThan(e, days)
            /\ cache.present /\ name \notin DOMAIN Jobs =>
                  /\ \A e \in Deleted : e.type = "f"
                  /\ cache.find = "ok" => \A e \in cache.after : e.type # "f"
            /\ ~log[i].ok <=> (cache.present /\ cache.find \in {"failed", "not started"})

\* a cleanup of a catalog job with a cutover override has deleted the old file and
\* kept the files that are not a whole day past the cutover
C11_Witness ==
    /\ pc = "exit"
    /\ \E i \in Logged("cache") :
          /\ log[i].job = "home" /\ log[i].ok
          /\ cache.present /\ cache.find = "ok"
          /\ \E e \in Deleted : e.name = "old"
          /\ \E e \in cache.after : e.name = "edge"
          /\ \E e \in cache.after : e.name = "new"

\* trigger_backup was called for a catalog job that configures a pre-script
WithPreScript ==
    /\ Dispatched("backup")
    /\ config = "loaded"
    /\ args.job \in DOMAIN Jobs
    /\ "pre_script" \in DOMAIN Jobs[args.job]

\* the pre-script ended well; it failed, timed out or could not be run
ScriptSucceeded == \E i \in Logged("script") : log[i].ok
ScriptFailed == \E i \in Logged("error") : log[i].detail = "Pre-script failed"

\* the job's abort-on-failure flag is set, or absent
AbortFlagSetOrAbsent ==
    "abort_on_pre_script_failure" \in DOMAIN Jobs[args.job]
        => Jobs[args.job].abort_on_pre_script_failure

\* the script has ended, within its timeout or killed at it (1800 s unless the job
\* says otherwise), before anything of the backup command exists
ScriptEndsFirst ==
    /\ pc = "script" => cmd = <<>> /\ Logged("script") = {} /\ Logged("tool") = {}
    /\ \A j \in Logged("script") :
          /\ log[j].limit = (IF "pre_script_timeout" \in DOMAIN Jobs[args.job]
                             THEN Jobs[args.job].pre_script_timeout ELSE 1800)
          /\ log[j].detail \in {"ok", "failed", "timeout"}
          /\ \A i \in Logged("tool") : j < i
    /\ cmd # <<>> \/ Logged("tool") # {} => ScriptSucceeded \/ ScriptFailed

NiceOutOfRange == Parsed /\ (args.nice < -20 \/ args.nice > 19)

NoSelector == Parsed /\ args.action \in JobActions /\ args.job = None /\ ~args.all

BothSelectors == Parsed /\ args.action \in JobActions /\ args.job # None /\ args.all

RestoreDestinationUnresolved ==
    \/ RestoreOfMissingDestination
    \/ /\ Dispatched("restore")
       /\ config = "loaded"
       /\ args.restore_path = None /\ args.job \notin DOMAIN Jobs

\* C13: on every argument-validation failure (nice level outside -20..19, a job
\* action with neither --job nor --all, both --job and --all, a restore whose
\* destination cannot be resolved) the program exits with code 1 and the external
\* tool is not invoked.
C13_ValidationFailuresExitOne ==
    NiceOutOfRange \/ NoSelector \/ BothSelectors \/ RestoreDestinationUnresolved =>
        /\ Logged("tool") = {}
        /\ pc = "exit" => exit = "1"

\* C14: every invocation of the external tool made during one run of the process,
\* whatever was invoked before it, runs at the CPU priority configured with --nice.
C14_ToolRunsAtConfiguredNice ==
    \A i \in Logged("tool") : log[i].nice = args.nice

====
